---- MODULE Spec2Model ----
(***************************************************************************)
(* Model of the local-llm extension core:                                  *)
(*   - LocalLLMClient.makeRequest (retry loop, error classification)       *)
(*   - GracefulDegradationService (feature state machine) together with    *)
(*     its ConnectionMonitor                                               *)
(***************************************************************************)
EXTENDS Integers, Sequences, FiniteSets, TLC

(***************************************************************************)
(* Bounds                                                                  *)
(***************************************************************************)
\* largest value of retryAttempts a configuration is given in the model
MaxRetry == 2
\* largest number of executeWithDegradation calls in flight at once
MaxCalls == 1
\* largest number of initialize calls made on a service that was already
\* initialized
MaxInit == 1
\* largest number of lines in the body of a streamed response
MaxLines == 3
\* largest number of RetryScheduler.schedule calls
MaxSchedules == 2
\* largest maxAttempts option given to schedule
MaxAttempts == 2
\* value of retryAttempts in the study of the waits between attempts
BackoffRetries == 5
\* largest number of checkHealth calls in flight at once
MaxChecks == 2
\* largest value of the error count of the error boundary
MaxErrorCount == 12

(***************************************************************************)
(* Errors (src/src/models/errors.js).  An error value records the class    *)
(* that `instanceof` sees, its `name`, `code`, `statusCode` and `cause`.   *)
(* A cause is kept as the class, name and code of the wrapped error.       *)
(***************************************************************************)
NoCause == [cls |-> "none", name |-> "none", code |-> "none"]

NoError == [cls |-> "none", name |-> "none", code |-> "none",
            statusCode |-> 0, cause |-> NoCause]

CauseOf(e) == [cls |-> e.cls, name |-> e.name, code |-> e.code]

ConnectionError(code, cause) ==
    [cls |-> "ConnectionError", name |-> "ConnectionError", code |-> code,
     statusCode |-> 0, cause |-> cause]

ApiError(code, statusCode) ==
    [cls |-> "ApiError", name |-> "ApiError", code |-> code,
     statusCode |-> statusCode, cause |-> NoCause]

ModelError(code) ==
    [cls |-> "ModelError", name |-> "ModelError", code |-> code,
     statusCode |-> 0, cause |-> NoCause]

ValidationError(code) ==
    [cls |-> "ValidationError", name |-> "ValidationError", code |-> code,
     statusCode |-> 0, cause |-> NoCause]

\* what fetch throws: a plain Error carrying a system code, or the
\* TimeoutError of AbortSignal.timeout, or a TypeError without a code
NetworkKinds == {"ECONNREFUSED", "ETIMEDOUT", "ENOTFOUND", "TimeoutError", "TypeError"}

NetworkError(kind) ==
    [cls |-> "Error",
     name |-> IF kind \in {"TimeoutError", "TypeError"} THEN kind ELSE "Error",
     code |-> IF kind \in {"ECONNREFUSED", "ETIMEDOUT", "ENOTFOUND"} THEN kind ELSE "none",
     statusCode |-> 0, cause |-> NoCause]

\* HTTP statuses a fetch can deliver in the model
Statuses == {200, 304, 400, 401, 403, 404, 429, 500, 503}

\* mutant: 200 itself is not accepted
ResponseOkAbove200(status) == status > 200 /\ status < 300

\* response.ok
ResponseOk(status) == status >= 200 /\ status < 300

\* mutant: the default 4xx branch does not pass the status on
createErrorFromResponseNoStatus(statusCode) ==
    IF statusCode >= 400 /\ statusCode < 500
    THEN CASE statusCode = 404 -> ModelError("MODEL_NOT_FOUND")
           [] statusCode = 400 -> ValidationError("INVALID_REQUEST")
           [] statusCode = 401 -> ApiError("UNAUTHORIZED", statusCode)
           [] statusCode = 403 -> ApiError("FORBIDDEN", statusCode)
           [] OTHER -> ApiError("CLIENT_ERROR", 0)
    ELSE IF statusCode >= 500
         THEN ApiError("SERVER_ERROR", statusCode)
         ELSE ApiError("API_ERROR", statusCode)

createErrorFromResponse(statusCode) ==
    IF statusCode >= 400 /\ statusCode < 500
    THEN CASE statusCode = 404 -> ModelError("MODEL_NOT_FOUND")
           [] statusCode = 400 -> ValidationError("INVALID_REQUEST")
           [] statusCode = 401 -> ApiError("UNAUTHORIZED", statusCode)
           [] statusCode = 403 -> ApiError("FORBIDDEN", statusCode)
           [] OTHER -> ApiError("CLIENT_ERROR", statusCode)
    ELSE IF statusCode >= 500
         THEN ApiError("SERVER_ERROR", statusCode)
         ELSE ApiError("API_ERROR", statusCode)

createConnectionError(error) ==
    IF error.code = "ECONNREFUSED"
    THEN ConnectionError("CONNECTION_REFUSED", CauseOf(error))
    ELSE IF error.code = "ETIMEDOUT" \/ error.name = "TimeoutError"
         THEN ConnectionError("TIMEOUT", CauseOf(error))
         ELSE IF error.code = "ENOTFOUND"
              THEN ConnectionError("SERVER_NOT_FOUND", CauseOf(error))
              ELSE ConnectionError("NETWORK_ERROR", CauseOf(error))

(***************************************************************************)
(* State: LocalLLMClient (src/src/services/localLLMClient.js), then        *)
(* GracefulDegradationService and ConnectionMonitor (src/unnamed/part_004) *)
(***************************************************************************)
VARIABLES
    retryAttempts,  \* this.retryAttempts
    pc,             \* position of the makeRequest call
    attempt,        \* loop variable `attempt`
    lastError,      \* local `lastError`
    thrown,         \* the error makeRequest rejected with
    response,       \* status of the response makeRequest resolved with, 0 if none
    outcomes,       \* fetch outcomes of this call, in order (history)
    delay,          \* local `delay` of the sleep in progress, in ms, else 0
    cfgChanged      \* retryAttempts was changed since the call started (history)

clientVars == <<retryAttempts, pc, attempt, lastError, thrown, response, outcomes,
                delay, cfgChanged>>

VARIABLES
    featureStates,   \* this._featureStates
    isConnected,     \* ConnectionMonitor._isConnected
    listeners,       \* number of listeners in ConnectionMonitor._listeners
    checkIntervals,  \* number of live setInterval timers of the monitor
    checkInterval,   \* ConnectionMonitor._checkInterval holds a timer
    running,         \* per feature, executeWithDegradation calls awaiting operation()
    guidance,        \* per feature, calls awaiting the dialog of _showGuidance
    lastStep         \* the step taken last (history)

degrVars == <<featureStates, isConnected, listeners, checkIntervals, checkInterval,
              running, guidance, lastStep>>

VARIABLES
    call             \* one executeWithDegradation call: its arguments, its
                     \* position and the way it settled

callVars == <<call>>

VARIABLES
    body,            \* the bytes of the streamed response body, as units
    pos,             \* number of units the reader has handed out
    spc,             \* position of the streamChatCompletion call
    delivered,       \* the arguments of the onChunk calls, in order
    streamThrown,    \* the error streamChatCompletion rejected with
    sentinelRead,    \* a read contained the line `data: [DONE]` (history)
    dataLinesBefore, \* number of `data: ` lines read before it (history)
    expected         \* payloads of the well-formed `data: ` lines read
                     \* before it, in order (history)

streamVars == <<body, pos, spc, delivered, streamThrown,
                sentinelRead, dataLinesBefore, expected>>

VARIABLES
    retryQueue,      \* RetryScheduler._retryQueue: per key, the retryInfo
    infos,           \* the retryInfo objects made by schedule, in order
    timers,          \* RetryScheduler._timers: per key, the state of the
                     \* timer it holds ("none", "pending", "fired")
    orphans,         \* per key, pending timers that _timers does not hold
    inflight         \* per retryInfo, attempts awaiting operation()

timerVars == <<retryQueue, infos, timers, orphans, inflight>>

VARIABLES
    chatReq,         \* arguments of the chatCompletion call
    cpc,             \* position of the chatCompletion call
    sent,            \* the requests the call issued, in order
    listed,          \* the models GET /v1/models returned to the call
    found,           \* local `model` of validateChatModel
    verdict,         \* what supportsChat() and isLoaded() returned for it
    chatThrown       \* the error chatCompletion rejected with

chatVars == <<chatReq, cpc, sent, listed, found, verdict, chatThrown>>

VARIABLES
    baseUrl,         \* this.baseUrl, as a sequence of units
    timeout,         \* this.timeout
    clientHealthy,   \* this.isHealthy of the client
    lastHealthCheck, \* this.lastHealthCheck: "null" or "date"
    healthChecks,    \* checkHealth calls awaiting makeRequest: started since
                     \* the last updateConfig (fresh) or before it (stale)
    healthyFrom,     \* the kind of call that set it to true last (history)
    updated          \* the last updateConfig call: its argument and the
                     \* error it threw (history)

configVars == <<baseUrl, timeout, clientHealthy, lastHealthCheck, healthChecks,
                healthyFrom, updated>>

VARIABLES
    errorCount,      \* GlobalErrorBoundary._errorCount
    resetTimer,      \* GlobalErrorBoundary._resetTimer holds an interval
    wpc,             \* position of the call of the wrapped makeRequest
    caught,          \* `error` of the catch block of the wrapper
    wrapped          \* how the wrapped call settled: its value or its
                     \* error, and how the error handler ended (history)

boundaryVars == <<errorCount, resetTimer, wpc, caught, wrapped>>

VARIABLES
    lossReported     \* the listeners were told of a connection loss and of
                     \* no restore since (history)

lossVars == <<lossReported>>

\* the variables an action of one component leaves alone
nonClientVars ==
    <<degrVars, callVars, streamVars, timerVars, chatVars, configVars, boundaryVars, lossVars>>
nonDegrVars ==
    <<clientVars, callVars, streamVars, timerVars, chatVars, configVars, boundaryVars, lossVars>>
nonCallVars ==
    <<clientVars, streamVars, timerVars, chatVars, configVars, boundaryVars, lossVars>>
nonStreamVars ==
    <<clientVars, degrVars, callVars, timerVars, chatVars, configVars, boundaryVars, lossVars>>
nonTimerVars ==
    <<clientVars, callVars, streamVars, chatVars, configVars, boundaryVars, lossVars>>
nonChatVars ==
    <<clientVars, degrVars, callVars, streamVars, timerVars, configVars, boundaryVars, lossVars>>
nonConfigVars ==
    <<degrVars, callVars, streamVars, timerVars, chatVars, boundaryVars, lossVars>>
nonBoundaryVars ==
    <<degrVars, callVars, streamVars, timerVars, chatVars, configVars, lossVars>>

HttpOutcome(status) == [status |-> status, net |-> "none"]
NetOutcome(kind) == [status |-> 0, net |-> kind]

\* number of fetches issued by the call
Fetches == Len(outcomes)

\* for-loop condition, line 108
LoopContinues(a, r) == a <= r

\* mutant: the loop variable is not advanced
NextAttemptStuck(a) == a

\* for-loop increment `attempt++`, line 108
NextAttempt(a) == a + 1

\* mutant: every ApiError of status >= 400 ends the loop
IsClientApiErrorNoUpper(error) ==
    error.cls = "ApiError" /\ error.statusCode >= 400

\* line 144
IsClientApiError(error) ==
    error.cls = "ApiError" /\ error.statusCode >= 400 /\ error.statusCode < 500

\* line 149
IsLastAttempt(a, r) == a = r

\* lines 154-156
ConvertForRetry(error) ==
    IF error.cls # "ApiError" THEN createConnectionError(error) ELSE error

\* the cap of the wait, line 161
MaxDelayMs == 10000

MinOf(x, y) == IF x <= y THEN x ELSE y

\* line 159
BaseDelay(a) == 1000 * 2^a

\* line 160: Math.random() * 0.1 * baseDelay, at its least, in the middle
\* and at its largest whole value
Jitters(baseDelay) == {0, baseDelay \div 20, (baseDelay \div 10) - 1}

\* mutant: the wait is not capped
DelayUncapped(a, jitter) == BaseDelay(a) + jitter

\* line 161
Delay(a, jitter) == MinOf(BaseDelay(a) + jitter, MaxDelayMs)

\* updateConfig, lines 252-254: the health status is reset; the checkHealth
\* calls in flight were started under the configuration that is replaced
ResetHealth ==
    /\ clientHealthy' = FALSE
    /\ lastHealthCheck' = "null"
    /\ healthChecks' = [fresh |-> 0, stale |-> healthChecks.fresh + healthChecks.stale]
    /\ healthyFrom' = "none"

ClientInitAt(r) ==
    /\ retryAttempts = r
    /\ pc = "idle"
    /\ attempt = 0
    /\ lastError = NoError
    /\ thrown = NoError
    /\ response = 0
    /\ outcomes = <<>>
    /\ delay = 0
    /\ cfgChanged = FALSE

ClientInit == \E r \in 0..MaxRetry : ClientInitAt(r)

\* makeRequest is called: lines 79-108 up to the first fetch
StartRequestEffect ==
    /\ attempt' = 0
    /\ lastError' = NoError
    /\ thrown' = NoError
    /\ response' = 0
    /\ outcomes' = <<>>
    /\ delay' = 0
    /\ cfgChanged' = FALSE
    /\ IF LoopContinues(0, retryAttempts)
       THEN pc' = "fetching"
       ELSE pc' = "rejected"
    /\ UNCHANGED retryAttempts

StartRequest ==
    /\ pc \in {"idle", "resolved", "rejected"}
    /\ StartRequestEffect
    /\ UNCHANGED nonClientVars

\* the catch block, lines 132-164, for the error caught on this attempt;
\* the sleep of line 163 starts with the delay of lines 159-161
CatchError(error) ==
    IF IsClientApiError(error)
    THEN /\ lastError' = error
         /\ thrown' = error
         /\ pc' = "rejected"
         /\ delay' = 0
    ELSE IF IsLastAttempt(attempt, retryAttempts)
         THEN /\ lastError' = error
              /\ thrown' = error
              /\ pc' = "rejected"
              /\ delay' = 0
         ELSE /\ lastError' = ConvertForRetry(error)
              /\ thrown' = NoError
              /\ pc' = "sleeping"
              /\ \E jitter \in Jitters(BaseDelay(attempt)) :
                     delay' = Delay(attempt, jitter)

\* fetch resolves with a response, lines 110-130
FetchResponse(status) ==
    /\ pc = "fetching"
    /\ outcomes' = Append(outcomes, HttpOutcome(status))
    /\ IF ResponseOk(status)
       THEN /\ response' = status
            /\ pc' = "resolved"
            /\ UNCHANGED <<lastError, thrown, delay>>
       ELSE /\ CatchError(createErrorFromResponse(status))
            /\ UNCHANGED response
    /\ UNCHANGED <<retryAttempts, attempt, cfgChanged>>
    /\ UNCHANGED nonClientVars

\* fetch rejects (network failure or timeout), line 110 then the catch block
FetchThrows(kind) ==
    /\ pc = "fetching"
    /\ outcomes' = Append(outcomes, NetOutcome(kind))
    /\ CatchError(NetworkError(kind))
    /\ UNCHANGED <<retryAttempts, attempt, response, cfgChanged>>
    /\ UNCHANGED nonClientVars

\* the sleep of line 163 ends: attempt++ and the loop condition, then either
\* the next fetch or `throw lastError` of line 167
SleepDone ==
    /\ pc = "sleeping"
    /\ attempt' = NextAttempt(attempt)
    /\ IF LoopContinues(NextAttempt(attempt), retryAttempts)
       THEN /\ pc' = "fetching"
            /\ UNCHANGED thrown
       ELSE /\ pc' = "rejected"
            /\ thrown' = lastError
    /\ delay' = 0
    /\ UNCHANGED <<retryAttempts, lastError, response, outcomes, cfgChanged>>
    /\ UNCHANGED nonClientVars

\* updateConfig({retryAttempts: r}), lines 236-255
UpdateConfig(r) ==
    /\ retryAttempts' = r
    /\ cfgChanged' = (cfgChanged \/ (pc # "idle" /\ r # retryAttempts))
    /\ ResetHealth
    /\ UNCHANGED <<baseUrl, timeout, updated>>
    /\ UNCHANGED <<pc, attempt, lastError, thrown, response, outcomes, delay>>
    /\ UNCHANGED nonConfigVars

ClientNext ==
    \/ StartRequest
    \/ \E status \in Statuses : FetchResponse(status)
    \/ \E kind \in NetworkKinds : FetchThrows(kind)
    \/ SleepDone
    \/ \E r \in 0..MaxRetry : UpdateConfig(r)

\* the statuses and the network failure of the study of the waits: a
\* success, a 4xx that is not retried, a 5xx, a refused connection
BackoffStatuses == {200, 429, 503}
BackoffKinds == {"ECONNREFUSED"}

\* makeRequest calls with retryAttempts large enough for the cap of the wait
BackoffNext ==
    \/ StartRequest
    \/ \E status \in BackoffStatuses : FetchResponse(status)
    \/ \E kind \in BackoffKinds : FetchThrows(kind)
    \/ SleepDone
    \/ \E r \in {0, BackoffRetries} : UpdateConfig(r)

(***************************************************************************)
(* GracefulDegradationService and ConnectionMonitor (src/unnamed/part_004) *)
(***************************************************************************)
\* FEATURE_STATES, lines 15-24
FEATURE_STATES == {"available", "limited", "unavailable", "disabled"}

\* FALLBACK_STRATEGIES, lines 31-40, and "custom" for any other value, which
\* takes the default branch of the switch of _handleOperationFailure
FALLBACK_STRATEGIES == {"cached", "simplified", "guidance", "disable"}
Strategies == FALLBACK_STRATEGIES \cup {"custom"}

\* the features of _initializeFeatureStates, line 264
Features == {"models", "chat", "completion", "embeddings", "connection"}

\* the features of the loss branch of _handleConnectionStateChange, line 287
DependentFeatures == {"models", "chat", "completion", "embeddings"}

\* errors an operation given to executeWithDegradation rejects with
OperationErrors ==
    { ConnectionError("CONNECTION_REFUSED", CauseOf(NetworkError("ECONNREFUSED"))),
      ModelError("MODEL_NOT_FOUND"),
      ApiError("SERVER_ERROR", 500),
      ApiError("CLIENT_ERROR", 429),
      ValidationError("INVALID_REQUEST") }

RECURSIVE SumOver(_, _)
SumOver(f, S) ==
    IF S = {} THEN 0
    ELSE LET x == CHOOSE y \in S : TRUE IN f[x] + SumOver(f, S \ {x})

\* number of executeWithDegradation calls in flight
CallsInFlight == SumOver(running, DependentFeatures) + SumOver(guidance, DependentFeatures)

\* history record of a step: its kind, the feature and error of a call that
\* settled, whether the 'disable' strategy was applied, and, for a connection
\* report, the states the dependent features were in before it
Step(kind, feature, error, disable, from) ==
    [kind |-> kind, feature |-> feature, error |-> error, disable |-> disable, from |-> from]

OtherStep == Step("other", "none", NoError, FALSE, {})

\* getFeatureState, lines 83-85
getFeatureState(fs, featureName) == fs[featureName]

\* setFeatureState, lines 92-100
setFeatureState(fs, featureName, state) == [fs EXCEPT ![featureName] = state]

\* mutant: the loss branch leaves disabled features alone
HandleConnectionStateChangeKeepDisabled(fs, connected) ==
    IF connected
    THEN [f \in Features |->
            IF f = "connection" THEN "available"
            ELSE IF fs[f] = "unavailable" THEN "limited" ELSE fs[f]]
    ELSE [f \in Features |->
            IF f \in DependentFeatures /\ fs[f] = "disabled" THEN "disabled"
            ELSE "unavailable"]

\* mutant: the restore branch makes the unavailable features available
HandleConnectionStateChangeToAvailable(fs, connected) ==
    IF connected
    THEN [f \in Features |->
            IF f = "connection" THEN "available"
            ELSE IF fs[f] = "unavailable" THEN "available" ELSE fs[f]]
    ELSE [f \in Features |-> "unavailable"]

\* _handleConnectionStateChange, lines 275-291: the feature states it leaves
HandleConnectionStateChange(fs, connected) ==
    IF connected
    THEN [f \in Features |->
            IF f = "connection" THEN "available"
            ELSE IF fs[f] = "unavailable" THEN "limited" ELSE fs[f]]
    ELSE [f \in Features |->
            IF f = "connection" \/ f \in DependentFeatures THEN "unavailable" ELSE fs[f]]

\* mutant: every ApiError leaves the feature limited
FailureStateApiLimited(error) ==
    IF error.cls = "ConnectionError" THEN "unavailable"
    ELSE IF error.cls = "ModelError" THEN "limited"
    ELSE IF error.cls = "ApiError" THEN "limited"
    ELSE "unavailable"

\* _handleOperationFailure, lines 305-314: the state for the error
FailureState(error) ==
    IF error.cls = "ConnectionError" THEN "unavailable"
    ELSE IF error.cls = "ModelError" THEN "limited"
    ELSE IF error.cls = "ApiError"
         THEN (IF error.statusCode >= 500 THEN "unavailable" ELSE "limited")
    ELSE "unavailable"

\* mutant: the guidance case falls through into the disable case
DisablesFeatureAlsoGuidance(fallbackStrategy) ==
    fallbackStrategy \in {"guidance", "disable"}

\* _handleOperationFailure, lines 327-329: the strategy that disables
DisablesFeature(fallbackStrategy) == fallbackStrategy = "disable"

DegrInit ==
    /\ featureStates = [f \in Features |-> "unavailable"]
    /\ isConnected = FALSE
    /\ listeners = 0
    /\ checkIntervals = 0
    /\ checkInterval = FALSE
    /\ running = [f \in DependentFeatures |-> 0]
    /\ guidance = [f \in DependentFeatures |-> 0]
    /\ lastStep = OtherStep

\* GracefulDegradationService.initialize, lines 67-76, with
\* ConnectionMonitor.initialize, lines 716-726: an interval is set, the
\* initial check starts (it touches no state until checkHealth settles),
\* the listener is added
InitializeEffect ==
    /\ listeners' = listeners + 1
    /\ checkIntervals' = checkIntervals + 1
    /\ checkInterval' = TRUE
    /\ lastStep' = OtherStep
    /\ UNCHANGED <<featureStates, isConnected, running, guidance>>
    /\ UNCHANGED nonDegrVars

\* the call of the extension's activation (src/unnamed/part_002, line 131),
\* made once on a service that holds no listener
Initialize ==
    /\ listeners = 0
    /\ InitializeEffect

\* _checkConnection, lines 767-774, started by initialize or by the interval
\* of line 720: it touches no state before checkHealth settles, so the step
\* is taken when checkHealth settles with isHealthy; then
\* _updateConnectionState, lines 781-794, with the listeners it calls
CheckConnectionEffect(isHealthy) ==
    /\ checkIntervals > 0
    /\ IF isConnected # isHealthy
       THEN /\ isConnected' = isHealthy
            /\ IF listeners > 0
               THEN /\ featureStates' = HandleConnectionStateChange(featureStates, isHealthy)
                    /\ lastStep' = Step(IF isHealthy THEN "restored" ELSE "lost", "none",
                                        NoError, FALSE,
                                        {featureStates[f] : f \in DependentFeatures})
               ELSE /\ UNCHANGED featureStates
                    /\ lastStep' = OtherStep
       ELSE /\ UNCHANGED <<isConnected, featureStates>>
            /\ lastStep' = OtherStep
    /\ UNCHANGED <<listeners, checkIntervals, checkInterval, running, guidance>>

CheckConnection(isHealthy) ==
    /\ CheckConnectionEffect(isHealthy)
    /\ UNCHANGED nonDegrVars

\* the same step, with the record of what the listeners were told last
CheckConnectionReported(isHealthy) ==
    /\ CheckConnectionEffect(isHealthy)
    /\ lossReported' = IF isConnected # isHealthy /\ listeners > 0
                       THEN ~isHealthy
                       ELSE lossReported
    /\ UNCHANGED <<clientVars, callVars, streamVars, timerVars, chatVars, configVars,
                   boundaryVars>>

\* setFeatureState called directly, lines 92-100
SetFeatureState(featureName, state) ==
    /\ featureStates' = setFeatureState(featureStates, featureName, state)
    /\ lastStep' = Step("set", "none", NoError, FALSE, {})
    /\ UNCHANGED <<isConnected, listeners, checkIntervals, checkInterval, running, guidance>>
    /\ UNCHANGED nonDegrVars

\* executeWithDegradation is called, lines 122-136: a disabled feature returns
\* the fallback value at once (_handleDisabledFeature, lines 346-359),
\* otherwise the operation is invoked and awaited
ExecuteStart(featureName) ==
    /\ CallsInFlight < MaxCalls
    /\ IF getFeatureState(featureStates, featureName) = "disabled"
       THEN /\ lastStep' = Step("disabledCall", featureName, NoError, FALSE, {})
            /\ UNCHANGED running
       ELSE /\ running' = [running EXCEPT ![featureName] = @ + 1]
            /\ lastStep' = OtherStep
    /\ UNCHANGED <<featureStates, isConnected, listeners, checkIntervals, checkInterval, guidance>>
    /\ UNCHANGED nonDegrVars

\* the operation resolves, lines 136-141
OperationResolves(featureName) ==
    /\ running[featureName] > 0
    /\ running' = [running EXCEPT ![featureName] = @ - 1]
    /\ featureStates' = setFeatureState(featureStates, featureName, "available")
    /\ lastStep' = Step("resolved", featureName, NoError, FALSE, {})
    /\ UNCHANGED <<isConnected, listeners, checkIntervals, checkInterval, guidance>>
    /\ UNCHANGED nonDegrVars

\* the operation rejects: the catch of lines 143-154 and
\* _handleOperationFailure, lines 303-336, up to its first await.  The
\* fallback strategy is an argument of the call that is first read here.
OperationRejects(featureName, error, fallbackStrategy) ==
    /\ running[featureName] > 0
    /\ running' = [running EXCEPT ![featureName] = @ - 1]
    /\ LET failed == setFeatureState(featureStates, featureName, FailureState(error))
       IN  featureStates' =
               IF DisablesFeature(fallbackStrategy)
               THEN setFeatureState(failed, featureName, "disabled")
               ELSE failed
    /\ guidance' = IF fallbackStrategy = "guidance"
                   THEN [guidance EXCEPT ![featureName] = @ + 1]
                   ELSE guidance
    /\ lastStep' = Step("rejected", featureName, error, fallbackStrategy = "disable", {})
    /\ UNCHANGED <<isConnected, listeners, checkIntervals, checkInterval>>
    /\ UNCHANGED nonDegrVars

\* the dialog of _showGuidance is answered or dismissed and the call returns
\* the fallback value, lines 404-416 and 325-326
GuidanceDone(featureName) ==
    /\ guidance[featureName] > 0
    /\ guidance' = [guidance EXCEPT ![featureName] = @ - 1]
    /\ lastStep' = OtherStep
    /\ UNCHANGED <<featureStates, isConnected, listeners, checkIntervals, checkInterval, running>>
    /\ UNCHANGED nonDegrVars

\* the monitor and executeWithDegradation calls, with no direct
\* setFeatureState call
LossNext ==
    \/ Initialize
    \/ \E isHealthy \in BOOLEAN : CheckConnectionReported(isHealthy)
    \/ \E f \in DependentFeatures : ExecuteStart(f)
    \/ \E f \in DependentFeatures : OperationResolves(f)
    \/ \E f \in DependentFeatures, e \in OperationErrors, s \in Strategies :
           OperationRejects(f, e, s)
    \/ \E f \in DependentFeatures : GuidanceDone(f)

DegrNext ==
    \/ Initialize
    \/ \E isHealthy \in BOOLEAN : CheckConnection(isHealthy)
    \/ \E f \in DependentFeatures, st \in FEATURE_STATES : SetFeatureState(f, st)
    \/ \E f \in DependentFeatures : ExecuteStart(f)
    \/ \E f \in DependentFeatures : OperationResolves(f)
    \/ \E f \in DependentFeatures, e \in OperationErrors, s \in Strategies :
           OperationRejects(f, e, s)
    \/ \E f \in DependentFeatures : GuidanceDone(f)

(***************************************************************************)
(* One executeWithDegradation call with its arguments and its result       *)
(* (src/unnamed/part_004)                                                  *)
(***************************************************************************)
\* values a call resolves with
Null == "null"
CallerValue == "callerValue"            \* a fallbackValue other than null
OperationResult == "operationResult"    \* what operation() resolved with
EmptyArray == "[]"
UnavailableChoices == "{choices: [{text: 'LM Studio is currently unavailable.'}]}"
EmptyData == "{data: []}"
ApologyChat == "{choices: [{message: {role: 'assistant', content: 'I apologize, ...'}}]}"
PlaceholderCompletion == "{choices: [{text: '// LM Studio is currently unavailable ...'}]}"
EmptyEmbedding == "{data: [], usage: {total_tokens: 0}}"
CustomHandlerValue == "customHandlerValue"

\* this._fallbackData.get(featureName): the map is created empty (line 53)
\* and no code of the service adds an entry to it
fallbackData(featureName) == Null

\* _getCachedFallback, lines 367-374
getCachedFallback(featureName) ==
    IF fallbackData(featureName) # Null THEN fallbackData(featureName) ELSE Null

\* _getSimplifiedFallback, lines 382-396
getSimplifiedFallback(featureName) ==
    CASE featureName = "models" -> EmptyArray
      [] featureName \in {"chat", "completion"} -> UnavailableChoices
      [] featureName = "embeddings" -> EmptyData
      [] OTHER -> Null

\* the fallback handlers: _getCachedModels, _getChatFallbackResponse,
\* _getCompletionFallbackResponse, _getEmbeddingFallbackResponse, lines
\* 485-536, and a handler of the caller
FallbackHandlers ==
    {"_getCachedModels", "_getChatFallbackResponse",
     "_getCompletionFallbackResponse", "_getEmbeddingFallbackResponse", "custom"}

HandlerValue(fallbackHandler) ==
    CASE fallbackHandler = "_getCachedModels" ->
             (IF fallbackData("models") # Null THEN fallbackData("models") ELSE EmptyArray)
      [] fallbackHandler = "_getChatFallbackResponse" -> ApologyChat
      [] fallbackHandler = "_getCompletionFallbackResponse" -> PlaceholderCompletion
      [] fallbackHandler = "_getEmbeddingFallbackResponse" -> EmptyEmbedding
      [] OTHER -> CustomHandlerValue

\* arguments of a call: the method called, the feature, and the options
CallArgs(method, featureName, fallbackStrategy, fallbackValue, fallbackHandler) ==
    [method |-> method, featureName |-> featureName,
     fallbackStrategy |-> fallbackStrategy, fallbackValue |-> fallbackValue,
     fallbackHandler |-> fallbackHandler]

\* the four *WithFallback methods, lines 161-210; fallbackValue takes its
\* default null (line 125)
WithFallbackCalls ==
    { CallArgs("getModelsWithFallback", "models", "cached", Null, "_getCachedModels"),
      CallArgs("chatCompletionWithFallback", "chat", "guidance", Null,
               "_getChatFallbackResponse"),
      CallArgs("textCompletionWithFallback", "completion", "guidance", Null,
               "_getCompletionFallbackResponse"),
      CallArgs("generateEmbeddingsWithFallback", "embeddings", "simplified", Null,
               "_getEmbeddingFallbackResponse") }

\* direct calls of executeWithDegradation, lines 122-127
DirectCalls ==
    { CallArgs("executeWithDegradation", f, s, v, h) :
          f \in DependentFeatures, s \in Strategies,
          v \in {Null, CallerValue}, h \in {"none", "custom"} }

\* _getGuidanceActions, lines 441-453
getGuidanceActions(error) ==
    IF error.cls = "ConnectionError" THEN {"Check Settings", "Retry Connection"}
    ELSE IF error.cls = "ModelError" THEN {"Refresh Models", "Select Model"}
    ELSE {"Retry"}

\* the guidance actions that await a command of the host, lines 464-474
HostCommandActions == {"Check Settings", "Refresh Models", "Select Model"}

\* the error of reading checkHealth of an undefined this.localLLMClient
TypeError == [cls |-> "TypeError", name |-> "TypeError", code |-> "none",
              statusCode |-> 0, cause |-> NoCause]

\* the error a rejected command of the host carries
CommandError == [cls |-> "Error", name |-> "Error", code |-> "none",
                 statusCode |-> 0, cause |-> NoCause]

\* this.localLLMClient is assigned by initialize only, line 68, which also
\* adds a listener; where dispose is not called, a listener tells of it
ClientAssigned == listeners > 0

\* the operation of a *WithFallback method calls a method of
\* this.localLLMClient, lines 162, 176, 190 and 204: while the client is
\* unassigned the operation can only reject, with a TypeError
OperationNeedsClient(args) == args.method # "executeWithDegradation"

OperationCanResolve(args) == OperationNeedsClient(args) => ClientAssigned

OperationCanRejectWith(args, error) ==
    IF OperationNeedsClient(args) /\ ~ClientAssigned
    THEN error = TypeError
    ELSE error \in OperationErrors

NoArgs == CallArgs("none", "none", "none", Null, "none")

\* the call record: args, phase ("idle", "operation", "dialog", "action",
\* "resolved", "rejected"), the error the operation rejected with, the
\* guidance action chosen, whether scheduleRetry was called, the feature
\* state before the operation settled, the value resolved with and the
\* error rejected with
CallState(args, phase, error, choice, retryScheduled, from, result, rejection) ==
    [args |-> args, phase |-> phase, error |-> error, choice |-> choice,
     retryScheduled |-> retryScheduled, from |-> from, result |-> result,
     rejection |-> rejection]

NoCall == CallState(NoArgs, "idle", NoError, "none", FALSE, "none", "none", NoError)

CallInit == call = NoCall

\* mutant: the value of the success path is the fallback value
SuccessValueFallback(args) == args.fallbackValue

\* lines 136-140: `return result`
SuccessValue(args) == OperationResult

\* mutant: a disabled feature answers with the cached data
handleDisabledFeatureCached(featureName, fallbackStrategy, fallbackValue) ==
    getCachedFallback(featureName)

\* _handleDisabledFeature, lines 346-359: `return fallbackValue`
handleDisabledFeature(featureName, fallbackStrategy, fallbackValue) == fallbackValue

\* executeWithDegradation is called, lines 122-136: a disabled feature
\* returns the fallback value at once (_handleDisabledFeature, lines
\* 346-359), otherwise the operation is invoked and awaited
CallExecute(args) ==
    /\ call.phase = "idle"
    /\ IF getFeatureState(featureStates, args.featureName) = "disabled"
       THEN call' = CallState(args, "resolved", NoError, "none", FALSE, "disabled",
                              handleDisabledFeature(args.featureName, args.fallbackStrategy,
                                                    args.fallbackValue),
                              NoError)
       ELSE call' = CallState(args, "operation", NoError, "none", FALSE, "none",
                              "none", NoError)
    /\ UNCHANGED degrVars
    /\ UNCHANGED nonCallVars

\* the operation resolves, lines 136-140
CallOperationResolves ==
    /\ call.phase = "operation"
    /\ OperationCanResolve(call.args)
    /\ featureStates' = setFeatureState(featureStates, call.args.featureName, "available")
    /\ call' = [call EXCEPT !.phase = "resolved",
                            !.from = featureStates[call.args.featureName],
                            !.result = SuccessValue(call.args)]
    /\ UNCHANGED <<isConnected, listeners, checkIntervals, checkInterval, running, guidance, lastStep>>
    /\ UNCHANGED nonCallVars

\* the operation rejects: the catch of lines 142-153 and
\* _handleOperationFailure, lines 303-336, up to its first await or to its
\* return.  A handler of the default branch returns its value.
handleOperationFailure(error) ==
    /\ LET args == call.args
           failed == setFeatureState(featureStates, args.featureName, FailureState(error))
           settled(value) == [call EXCEPT !.phase = "resolved", !.error = error,
                                          !.result = value]
       IN  /\ featureStates' =
                  IF DisablesFeature(args.fallbackStrategy)
                  THEN setFeatureState(failed, args.featureName, "disabled")
                  ELSE failed
           /\ call' =
                  CASE args.fallbackStrategy = "cached" ->
                           settled(getCachedFallback(args.featureName))
                    [] args.fallbackStrategy = "simplified" ->
                           settled(getSimplifiedFallback(args.featureName))
                    [] args.fallbackStrategy = "guidance" ->
                           [call EXCEPT !.phase = "dialog", !.error = error]
                    [] args.fallbackStrategy = "disable" ->
                           settled(args.fallbackValue)
                    [] OTHER ->
                           IF args.fallbackHandler # "none"
                           THEN settled(HandlerValue(args.fallbackHandler))
                           ELSE settled(args.fallbackValue)
    /\ UNCHANGED <<isConnected, listeners, checkIntervals, checkInterval, running, guidance, lastStep>>
    /\ UNCHANGED nonCallVars

\* the operation rejects with one of the errors given to the call
CallOperationRejects(error) ==
    /\ call.phase = "operation"
    /\ OperationCanRejectWith(call.args, error)
    /\ handleOperationFailure(error)

\* the dialog of _showGuidance settles with a choice, lines 408-411, and
\* _executeGuidanceAction runs up to its await, lines 462-483; a dismissed
\* dialog gives no choice and the call returns the fallback value, line 326
CallDialogSettles(choice) ==
    /\ call.phase = "dialog"
    /\ choice \in getGuidanceActions(call.error) \cup {"dismissed"}
    /\ call' =
          CASE choice = "dismissed" ->
                   [call EXCEPT !.phase = "resolved", !.choice = choice,
                                !.result = call.args.fallbackValue]
            [] choice = "Retry" ->
                   [call EXCEPT !.phase = "resolved", !.choice = choice,
                                !.retryScheduled = TRUE,
                                !.result = call.args.fallbackValue]
            [] choice = "Retry Connection" /\ ~ClientAssigned ->
                   [call EXCEPT !.phase = "rejected", !.choice = choice,
                                !.rejection = TypeError]
            [] OTHER ->
                   [call EXCEPT !.phase = "action", !.choice = choice]
    /\ UNCHANGED degrVars
    /\ UNCHANGED nonCallVars

\* what the guidance action awaits settles, lines 464-474: checkHealth
\* always resolves (localLLMClient.js, lines 197-209), a command of the host
\* resolves or rejects; then `return fallbackValue`, line 326
CallActionSettles(ok) ==
    /\ call.phase = "action"
    /\ (~ok) => call.choice \in HostCommandActions
    /\ call' = IF ok
               THEN [call EXCEPT !.phase = "resolved", !.result = call.args.fallbackValue]
               ELSE [call EXCEPT !.phase = "rejected", !.rejection = CommandError]
    /\ UNCHANGED degrVars
    /\ UNCHANGED nonCallVars

\* the caller has received the settled promise: the record of the call is
\* dropped before the next call is recorded
CallReturned ==
    /\ call.phase \in {"resolved", "rejected"}
    /\ call' = NoCall
    /\ UNCHANGED degrVars
    /\ UNCHANGED nonCallVars

CallNext ==
    \/ Initialize
    \/ \E args \in WithFallbackCalls \cup DirectCalls : CallExecute(args)
    \/ CallOperationResolves
    \/ \E e \in OperationErrors \cup {TypeError} : CallOperationRejects(e)
    \/ \E choice \in {"Check Settings", "Retry Connection", "Refresh Models",
                      "Select Model", "Retry", "dismissed"} : CallDialogSettles(choice)
    \/ \E ok \in BOOLEAN : CallActionSettles(ok)
    \/ CallReturned

(***************************************************************************)
(* LocalLLMClient.streamChatCompletion: the read loop                      *)
(* (src/src/services/localLLMClient.js, lines 507-542).  The body is a     *)
(* sequence of units: "data: " is the six-character prefix, "\n" the line  *)
(* feed, " " a space, the others are pieces of a payload.                  *)
(***************************************************************************)
DataPrefix == "data: "
LineFeed == "\n"
Whitespace == {" "}

\* the lines a server sends: two JSON payloads (12, of which the piece 1 is
\* JSON too, and {}, of which the piece { is not), a payload that is not
\* JSON, the sentinel, a comment line and a line of spaces
JsonLineA == <<DataPrefix, "1", "2">>
JsonLineB == <<DataPrefix, "{", "}">>
MalformedLine == <<DataPrefix, "x">>
SentinelLine == <<DataPrefix, "[DO", "NE]">>
CommentLine == <<":">>
SpaceLine == <<" ">>
ServerLines == {JsonLineA, JsonLineB, MalformedLine, SentinelLine, CommentLine, SpaceLine}

RECURSIVE JoinLines(_)
JoinLines(ls) ==
    IF ls = <<>> THEN <<>> ELSE Head(ls) \o <<LineFeed>> \o JoinLines(Tail(ls))

RECURSIVE SeqsUpTo(_, _)
SeqsUpTo(S, n) ==
    IF n = 0 THEN {<<>>}
    ELSE LET shorter == SeqsUpTo(S, n - 1)
         IN  shorter \cup {Append(q, x) : q \in shorter, x \in S}

\* response bodies: up to MaxLines lines, each ended by a line feed
Bodies == {JoinLines(ls) : ls \in SeqsUpTo(ServerLines, MaxLines) \ {<<>>}}

\* chunk.split('\n'), line 519
RECURSIVE SplitLines(_, _, _)
SplitLines(chunk, i, cur) ==
    IF i > Len(chunk) THEN <<cur>>
    ELSE IF chunk[i] = LineFeed
         THEN <<cur>> \o SplitLines(chunk, i + 1, <<>>)
         ELSE SplitLines(chunk, i + 1, Append(cur, chunk[i]))

\* line.trim(), line 519: truthy when a unit of the line is not whitespace
TrimIsTruthy(line) == \E i \in 1..Len(line) : line[i] \notin Whitespace

\* chunk.split('\n').filter(line => line.trim()), line 519
LinesOf(chunk) == SelectSeq(SplitLines(chunk, 1, <<>>), TrimIsTruthy)

\* line.startsWith('data: '), line 522
StartsWithData(line) == Len(line) >= 1 /\ line[1] = DataPrefix

\* line.slice(6), line 523
Slice6(line) == Tail(line)

\* mutant: the sentinel is not recognised
IsDoneNever(data) == FALSE

\* data === '[DONE]', line 525
IsDone(data) == data = <<"[DO", "NE]">>

\* mutant: every payload parses
JsonParsesAlways(data) == TRUE

\* JSON.parse(data) does not throw, line 530
JsonParses(data) == data \in {<<"1">>, <<"2">>, <<"1", "2">>, <<"{", "}">>}

\* the for loop over the lines of one read, lines 521-537, from line i on:
\* the onChunk arguments so far and whether the loop returned
RECURSIVE ProcessLines(_, _, _)
ProcessLines(lines, i, chunks) ==
    IF i > Len(lines) THEN [delivered |-> chunks, returned |-> FALSE]
    ELSE IF StartsWithData(lines[i])
         THEN LET data == Slice6(lines[i])
              IN  IF IsDone(data) THEN [delivered |-> chunks, returned |-> TRUE]
                  ELSE IF JsonParses(data)
                       THEN ProcessLines(lines, i + 1, Append(chunks, data))
                       ELSE ProcessLines(lines, i + 1, chunks)
         ELSE ProcessLines(lines, i + 1, chunks)

\* what a read showed (history): the lines of the read before the sentinel
\* line, or all of them if it has none
RECURSIVE BeforeSentinel(_)
BeforeSentinel(lines) ==
    IF lines = <<>> \/ Head(lines) = SentinelLine THEN <<>>
    ELSE <<Head(lines)>> \o BeforeSentinel(Tail(lines))

HasSentinel(lines) == \E i \in 1..Len(lines) : lines[i] = SentinelLine

IsDataLine(line) == line # <<>> /\ Head(line) = DataPrefix

\* the `data: ` lines whose payload is JSON; a read that ends inside
\* JsonLineA ends with the first of them
WellFormedLines == {JsonLineA, JsonLineB, <<DataPrefix, "1">>, <<DataPrefix, "2">>}

IsWellFormedLine(line) == line \in WellFormedLines

RECURSIVE PayloadsOf(_)
PayloadsOf(lines) ==
    IF lines = <<>> THEN <<>>
    ELSE <<Tail(Head(lines))>> \o PayloadsOf(Tail(lines))

StreamInit ==
    /\ body = <<>>
    /\ pos = 0
    /\ spc = "idle"
    /\ delivered = <<>>
    /\ streamThrown = NoError
    /\ sentinelRead = FALSE
    /\ dataLinesBefore = 0
    /\ expected = <<>>

\* makeRequest resolved with the response whose body is b and the reader is
\* taken, lines 501-508
StreamOpen(b) ==
    /\ spc = "idle"
    /\ body' = b
    /\ spc' = "reading"
    /\ UNCHANGED <<pos, delivered, streamThrown, sentinelRead, dataLinesBefore, expected>>
    /\ UNCHANGED nonStreamVars

\* reader.read() resolves with the next n units, lines 513-538
StreamRead(n) ==
    /\ spc = "reading"
    /\ n \in 1..(Len(body) - pos)
    /\ LET chunk == SubSeq(body, pos + 1, pos + n)
           lines == LinesOf(chunk)
           r == ProcessLines(lines, 1, delivered)
           before == BeforeSentinel(lines)
       IN  /\ delivered' = r.delivered
           /\ spc' = IF r.returned THEN "resolved" ELSE "reading"
           /\ sentinelRead' = (sentinelRead \/ HasSentinel(lines))
           /\ dataLinesBefore' =
                  IF sentinelRead THEN dataLinesBefore
                  ELSE dataLinesBefore + Len(SelectSeq(before, IsDataLine))
           /\ expected' =
                  IF sentinelRead THEN expected
                  ELSE expected \o PayloadsOf(SelectSeq(before, IsWellFormedLine))
    /\ pos' = pos + n
    /\ UNCHANGED <<body, streamThrown>>
    /\ UNCHANGED nonStreamVars

\* reader.read() resolves with done, lines 513-517: the loop ends and the
\* call resolves
StreamDone ==
    /\ spc = "reading"
    /\ pos = Len(body)
    /\ spc' = "ended"
    /\ UNCHANGED <<body, pos, delivered, streamThrown, sentinelRead, dataLinesBefore, expected>>
    /\ UNCHANGED nonStreamVars

\* reader.read() rejects: the catch of lines 544-555 wraps the error
StreamReadFails ==
    /\ spc = "reading"
    /\ spc' = "rejected"
    /\ streamThrown' = ApiError("STREAM_CHAT_COMPLETION_FAILED", 0)
    /\ UNCHANGED <<body, pos, delivered, sentinelRead, dataLinesBefore, expected>>
    /\ UNCHANGED nonStreamVars

StreamNext ==
    \/ \E b \in Bodies : StreamOpen(b)
    \/ \E n \in 1..Len(body) : StreamRead(n)
    \/ StreamDone
    \/ StreamReadFails

(***************************************************************************)
(* RetryScheduler, ConnectionMonitor timers and dispose                    *)
(* (src/unnamed/part_004)                                                  *)
(***************************************************************************)
\* keys given to schedule: scheduleRetry passes feature names, line 219
Keys == {"chat", "models"}

NoInfo == 0

\* the retryInfo object of lines 584-591
RetryInfo(key, maxAttempts) == [key |-> key, attempts |-> 0, maxAttempts |-> maxAttempts]

TimerInit ==
    /\ retryQueue = [k \in Keys |-> NoInfo]
    /\ infos = <<>>
    /\ timers = [k \in Keys |-> "none"]
    /\ orphans = [k \in Keys |-> 0]
    /\ inflight = [g \in 1..MaxSchedules |-> 0]

\* this._timers.set(key, timer), line 656: a pending timer that the entry
\* held is no longer held by _timers
orphansAfterSet(tm, orph, key) ==
    IF tm[key] = "pending" THEN [orph EXCEPT ![key] = @ + 1] ELSE orph

\* RetryScheduler.dispose, lines 629-635: the timers held by _timers are
\* cleared and the map is emptied
ClearedByDispose(tm) == [k \in Keys |-> "none"]

\* schedule(key, operation, {maxAttempts}), lines 574-595, with cancel,
\* lines 601-607, and _scheduleNextAttempt, lines 642-657
Schedule(key, maxAttempts) ==
    /\ Len(infos) < MaxSchedules
    /\ infos' = Append(infos, RetryInfo(key, maxAttempts))
    /\ retryQueue' = [retryQueue EXCEPT ![key] = Len(infos) + 1]
    /\ timers' = [timers EXCEPT ![key] = "pending"]
    /\ UNCHANGED <<orphans, inflight>>
    /\ UNCHANGED degrVars
    /\ UNCHANGED nonTimerVars

\* cancel(key), lines 601-607
Cancel(key) ==
    /\ retryQueue[key] # NoInfo \/ timers[key] # "none"
    /\ timers' = [timers EXCEPT ![key] = "none"]
    /\ retryQueue' = [retryQueue EXCEPT ![key] = NoInfo]
    /\ UNCHANGED <<infos, orphans, inflight>>
    /\ UNCHANGED degrVars
    /\ UNCHANGED nonTimerVars

\* a pending timer of the key fires, the one _timers holds or another one:
\* _executeRetry, lines 664-674, up to `await retryInfo.operation()`
TimerFires(key, held) ==
    /\ IF held THEN timers[key] = "pending" ELSE orphans[key] > 0
    /\ LET g == retryQueue[key]
           tm == IF held THEN [timers EXCEPT ![key] = "fired"] ELSE timers
           orph == IF held THEN orphans ELSE [orphans EXCEPT ![key] = @ - 1]
       IN  IF g = NoInfo
           THEN /\ timers' = tm
                /\ orphans' = orph
                /\ UNCHANGED <<infos, inflight>>
           ELSE /\ infos' = [infos EXCEPT ![g].attempts = @ + 1]
                /\ orphans' = orphansAfterSet(tm, orph, key)
                /\ timers' = [tm EXCEPT ![key] = "none"]
                /\ inflight' = [inflight EXCEPT ![g] = @ + 1]
    /\ UNCHANGED retryQueue
    /\ UNCHANGED degrVars
    /\ UNCHANGED nonTimerVars

\* the operation of an attempt resolves, lines 675-678
AttemptResolves(g) ==
    /\ inflight[g] > 0
    /\ inflight' = [inflight EXCEPT ![g] = @ - 1]
    /\ retryQueue' = [retryQueue EXCEPT ![infos[g].key] = NoInfo]
    /\ UNCHANGED <<infos, timers, orphans>>
    /\ UNCHANGED degrVars
    /\ UNCHANGED nonTimerVars

\* the operation of an attempt rejects, lines 679-691, with
\* _scheduleNextAttempt, lines 642-657
AttemptRejects(g) ==
    /\ inflight[g] > 0
    /\ inflight' = [inflight EXCEPT ![g] = @ - 1]
    /\ LET key == infos[g].key
       IN  IF infos[g].attempts < infos[g].maxAttempts
           THEN IF retryQueue[key] # NoInfo
                THEN /\ orphans' = orphansAfterSet(timers, orphans, key)
                     /\ timers' = [timers EXCEPT ![key] = "pending"]
                     /\ UNCHANGED retryQueue
                ELSE UNCHANGED <<retryQueue, timers, orphans>>
           ELSE /\ retryQueue' = [retryQueue EXCEPT ![key] = NoInfo]
                /\ UNCHANGED <<timers, orphans>>
    /\ UNCHANGED infos
    /\ UNCHANGED degrVars
    /\ UNCHANGED nonTimerVars

\* initialize called again, up to MaxInit times, on a service that may hold
\* a listener and an interval already
InitializeAgain ==
    /\ listeners <= MaxInit /\ checkIntervals <= MaxInit
    /\ InitializeEffect

\* GracefulDegradationService.dispose, lines 252-257, with
\* ConnectionMonitor.dispose, lines 755-761, and RetryScheduler.dispose,
\* lines 629-635; getFeatureState reads the emptied map as unavailable
Dispose ==
    /\ checkIntervals' = IF checkInterval THEN checkIntervals - 1 ELSE checkIntervals
    /\ checkInterval' = FALSE
    /\ listeners' = 0
    /\ timers' = ClearedByDispose(timers)
    /\ retryQueue' = [k \in Keys |-> NoInfo]
    /\ featureStates' = [f \in Features |-> "unavailable"]
    /\ lastStep' = OtherStep
    /\ UNCHANGED <<isConnected, running, guidance>>
    /\ UNCHANGED <<infos, orphans, inflight>>
    /\ UNCHANGED nonTimerVars

TimersNext ==
    \/ InitializeAgain
    \/ \E isHealthy \in BOOLEAN : CheckConnection(isHealthy)
    \/ \E k \in Keys, m \in 0..MaxAttempts : Schedule(k, m)
    \/ \E k \in Keys : Cancel(k)
    \/ \E k \in Keys, held \in BOOLEAN : TimerFires(k, held)
    \/ \E g \in 1..MaxSchedules : AttemptResolves(g)
    \/ \E g \in 1..MaxSchedules : AttemptRejects(g)
    \/ Dispose

(***************************************************************************)
(* Model (src/src/models/apiModels.js) and LocalLLMClient.chatCompletion   *)
(* with validateChatModel, getModel and getModels                          *)
(* (src/src/services/localLLMClient.js)                                    *)
(***************************************************************************)
Undefined == "undefined"

\* values of the `type` field: absent, null, and MODEL_TYPES
ModelTypeValues == {Undefined, Null, "llm", "vlm", "embeddings"}

\* values of the `state` field: absent, null, MODEL_STATES and 'ready'
ModelStateValues == {Undefined, Null, "loaded", "not-loaded", "ready"}

ModelIds == {"m1", "m2"}

\* new Model(data), lines 26-36: the fields the predicates read
Model(id, type, state) == [id |-> id, type |-> type, state |-> state]

Models == {Model(i, t, st) : i \in ModelIds, t \in ModelTypeValues, st \in ModelStateValues}

\* Model.isLoaded, lines 42-50
isLoaded(model) ==
    IF model.state = Undefined \/ model.state = Null THEN TRUE
    ELSE model.state = "loaded" \/ model.state = "ready" \/ model.state = "active"

\* mutant: a model without a type is not taken for a chat model
supportsChatTyped(model) == model.type = "llm" \/ model.type = "vlm"

\* Model.supportsChat, lines 56-63
supportsChat(model) ==
    IF model.type = Undefined \/ model.type = Null THEN TRUE
    ELSE model.type = "llm" \/ model.type = "vlm"

\* the lists GET /v1/models returns: each id at most once
ServerLists ==
    {<<>>} \cup {<<m>> : m \in Models}
           \cup {<<m, n>> : m \in {x \in Models : x.id = "m1"},
                            n \in {x \in Models : x.id = "m2"}}
           \cup {<<n, m>> : m \in {x \in Models : x.id = "m1"},
                            n \in {x \in Models : x.id = "m2"}}

\* the model ids of a request: one that a list can hold and the empty string
RequestModelIds == {"m1", ""}

\* errors makeJsonRequest rejects with
RequestErrors ==
    { ConnectionError("CONNECTION_REFUSED", CauseOf(NetworkError("ECONNREFUSED"))),
      ApiError("SERVER_ERROR", 500) }

GetModels == "GET /v1/models"
PostChat == "POST /v1/chat/completions"

NoModel == Model("none", Undefined, Undefined)
NoVerdict == [chatCapable |-> FALSE, loadedAsked |-> FALSE, loaded |-> FALSE]
NoRequest == [model |-> "none", validateModel |-> TRUE]

\* models.find(m => m.id === modelId), line 322: its index, 0 if none
RECURSIVE FindIndex(_, _, _)
FindIndex(models, modelId, i) ==
    IF i > Len(models) THEN 0
    ELSE IF models[i].id = modelId THEN i
    ELSE FindIndex(models, modelId, i + 1)

\* mutant: the load state is checked before the chat support
IncompatibleCodeLoadFirst(model) ==
    IF ~isLoaded(model) THEN "MODEL_NOT_LOADED"
    ELSE IF ~supportsChat(model) THEN "MODEL_INCOMPATIBLE_CHAT"
    ELSE "none"

\* validateChatModel, lines 651-667: the code of the ModelError it throws
\* for the model, "none" if it throws nothing
IncompatibleCode(model) ==
    IF ~supportsChat(model) THEN "MODEL_INCOMPATIBLE_CHAT"
    ELSE IF ~isLoaded(model) THEN "MODEL_NOT_LOADED"
    ELSE "none"

ChatInit ==
    /\ chatReq = NoRequest
    /\ cpc = "idle"
    /\ sent = <<>>
    /\ listed = <<>>
    /\ found = NoModel
    /\ verdict = NoVerdict
    /\ chatThrown = NoError

\* chatCompletion(request, {validateModel}) is called, lines 444-458, with
\* getModel up to its request, lines 308-319
ChatCompletion(modelId, validateModel) ==
    /\ cpc = "idle"
    /\ chatReq' = [model |-> modelId, validateModel |-> validateModel]
    /\ IF validateModel
       THEN IF modelId = ""
            THEN /\ cpc' = "rejected"
                 /\ chatThrown' = ModelError("INVALID_MODEL_ID")
                 /\ UNCHANGED sent
            ELSE /\ cpc' = "getting"
                 /\ sent' = Append(sent, GetModels)
                 /\ UNCHANGED chatThrown
       ELSE /\ cpc' = "posting"
            /\ sent' = Append(sent, PostChat)
            /\ UNCHANGED chatThrown
    /\ UNCHANGED <<listed, found, verdict>>
    /\ UNCHANGED nonChatVars

\* GET /v1/models resolves with a list: getModels, lines 276-286, getModel,
\* lines 320-331, validateChatModel, lines 651-667, then the POST of
\* chatCompletion, lines 460-464
ModelsArrive(models) ==
    /\ cpc = "getting"
    /\ listed' = models
    /\ LET i == FindIndex(models, chatReq.model, 1)
       IN  IF i = 0
           THEN /\ cpc' = "rejected"
                /\ chatThrown' = ModelError("MODEL_NOT_FOUND")
                /\ UNCHANGED <<sent, found, verdict>>
           ELSE /\ found' = models[i]
                /\ verdict' = [chatCapable |-> supportsChat(models[i]),
                                loadedAsked |-> supportsChat(models[i]),
                                loaded |-> supportsChat(models[i]) /\ isLoaded(models[i])]
                /\ IF IncompatibleCode(models[i]) # "none"
                   THEN /\ cpc' = "rejected"
                        /\ chatThrown' = ModelError(IncompatibleCode(models[i]))
                        /\ UNCHANGED sent
                   ELSE /\ cpc' = "posting"
                        /\ sent' = Append(sent, PostChat)
                        /\ UNCHANGED chatThrown
    /\ UNCHANGED chatReq
    /\ UNCHANGED nonChatVars

\* GET /v1/models fails: getModels rethrows, lines 288-299, and getModel
\* wraps the error, lines 333-343
ModelsFail(error) ==
    /\ cpc = "getting"
    /\ cpc' = "rejected"
    /\ chatThrown' = [ModelError("GET_MODEL_FAILED") EXCEPT !.cause = CauseOf(error)]
    /\ UNCHANGED <<chatReq, sent, listed, found, verdict>>
    /\ UNCHANGED nonChatVars

\* the POST resolves, lines 460-466
PostResolves ==
    /\ cpc = "posting"
    /\ cpc' = "resolved"
    /\ UNCHANGED <<chatReq, sent, listed, found, verdict, chatThrown>>
    /\ UNCHANGED nonChatVars

\* the POST fails, lines 468-471
PostFails(error) ==
    /\ cpc = "posting"
    /\ cpc' = "rejected"
    /\ chatThrown' = error
    /\ UNCHANGED <<chatReq, sent, listed, found, verdict>>
    /\ UNCHANGED nonChatVars

ChatNext ==
    \/ \E id \in RequestModelIds, v \in BOOLEAN : ChatCompletion(id, v)
    \/ \E models \in ServerLists : ModelsArrive(models)
    \/ \E e \in RequestErrors : ModelsFail(e)
    \/ PostResolves
    \/ \E e \in RequestErrors : PostFails(e)

\* schedule calls and the attempts they lead to, with no call of cancel or
\* dispose from outside
RetryNext ==
    \/ \E k \in Keys, m \in 0..MaxAttempts : Schedule(k, m)
    \/ \E k \in Keys, held \in BOOLEAN : TimerFires(k, held)
    \/ \E g \in 1..MaxSchedules : AttemptResolves(g)
    \/ \E g \in 1..MaxSchedules : AttemptRejects(g)

(***************************************************************************)
(* The *WithFallback methods down to fetch: GracefulDegradationService      *)
(* (src/unnamed/part_004, lines 161-210) over LocalLLMClient.getModels,    *)
(* getModel and the completion methods over makeRequest                    *)
(***************************************************************************)
\* the catch of getModels, localLLMClient.js lines 289-299; the statusCode
\* null of the new ApiError is 0 here, and compares with 500 as null does
getModelsCatch(error) ==
    IF error.cls \in {"ConnectionError", "ApiError"} THEN error
    ELSE [ApiError("GET_MODELS_FAILED", 0) EXCEPT !.cause = CauseOf(error)]

\* the catch of getModel, localLLMClient.js lines 332-343
getModelCatch(error) ==
    IF error.cls = "ModelError" THEN error
    ELSE [ModelError("GET_MODEL_FAILED") EXCEPT !.cause = CauseOf(error)]

\* what the operation of a *WithFallback method rejects with when the first
\* makeRequest it leads to rejects with error: getModels for
\* getModelsWithFallback; for the other three, validateModel being true by
\* default, the getModels of getModel inside validateChatModel,
\* validateTextModel or validateEmbeddingModel, whose rejection chatCompletion,
\* textCompletion and generateEmbeddings pass on (the await is outside their
\* try block)
OperationError(method, error) ==
    IF method = "getModelsWithFallback"
    THEN getModelsCatch(error)
    ELSE getModelCatch(getModelsCatch(error))

\* a *WithFallback method is called on an initialized service with a request
\* that names a model: executeWithDegradation, lines 122-136, invokes the
\* operation, which reaches makeRequest('/v1/models')
WithFallbackStarts(args) ==
    /\ call.phase = "idle"
    /\ pc \in {"idle", "rejected"}
    /\ ClientAssigned
    /\ getFeatureState(featureStates, args.featureName) # "disabled"
    /\ call' = CallState(args, "operation", NoError, "none", FALSE, "none", "none", NoError)
    /\ StartRequestEffect
    /\ UNCHANGED degrVars
    /\ UNCHANGED <<streamVars, timerVars, chatVars, configVars, boundaryVars, lossVars>>

\* makeRequest has rejected: the operation rejects and the catch of
\* executeWithDegradation handles the failure
WithFallbackRejects ==
    /\ call.phase = "operation"
    /\ pc = "rejected"
    /\ handleOperationFailure(OperationError(call.args.method, thrown))

\* every fetch fails with a network error
EndToEndNext ==
    \/ Initialize
    \/ \E args \in WithFallbackCalls : WithFallbackStarts(args)
    \/ \E kind \in NetworkKinds : FetchThrows(kind)
    \/ SleepDone
    \/ WithFallbackRejects
    \/ \E choice \in {"Check Settings", "Retry Connection", "Refresh Models",
                      "Select Model", "Retry", "dismissed"} : CallDialogSettles(choice)
    \/ \E ok \in BOOLEAN : CallActionSettles(ok)
    \/ CallReturned

(***************************************************************************)
(* GlobalErrorBoundary (src/src/services/globalErrorBoundary.js) around    *)
(* makeRequest (localLLMClient.js, lines 61-64)                            *)
(***************************************************************************)
\* this._maxErrors, line 27
MaxErrors == 10

\* new RuntimeError(message, 'GLOBAL_ERROR_BOUNDARY', error), lines 208-212
RuntimeError(error) ==
    [cls |-> "RuntimeError", name |-> "RuntimeError", code |-> "GLOBAL_ERROR_BOUNDARY",
     statusCode |-> 0, cause |-> CauseOf(error)]

\* mutant: the wrapper throws the error it made for the handler
WrapThrowsRuntimeError(error) == RuntimeError(error)

\* `throw error` of wrap, line 99
WrapThrows(error) == error

Settled(value, error, handler) == [value |-> value, error |-> error, handler |-> handler]

\* constructor, lines 19-30
BoundaryInit ==
    /\ errorCount = 0
    /\ resetTimer = FALSE
    /\ wpc = "idle"
    /\ caught = NoError
    /\ wrapped = Settled(0, NoError, "none")

\* initialize, lines 35-57: the interval that resets the error count
BoundaryInitialize ==
    /\ ~resetTimer
    /\ resetTimer' = TRUE
    /\ UNCHANGED <<errorCount, wpc, caught, wrapped>>
    /\ UNCHANGED <<clientVars, nonBoundaryVars>>

\* the callback of the interval, lines 51-53
ResetTimerFires ==
    /\ resetTimer
    /\ errorCount' = 0
    /\ UNCHANGED <<resetTimer, wpc, caught, wrapped>>
    /\ UNCHANGED <<clientVars, nonBoundaryVars>>

\* the wrapped makeRequest is called, lines 90-92: fn is called and awaited
WrappedCall ==
    /\ wpc \in {"idle", "resolved", "rejected"}
    /\ errorCount < MaxErrorCount
    /\ StartRequestEffect
    /\ wpc' = "inner"
    /\ caught' = NoError
    /\ wrapped' = Settled(0, NoError, "none")
    /\ UNCHANGED <<errorCount, resetTimer>>
    /\ UNCHANGED nonBoundaryVars

\* makeRequest resolved: `return result`, lines 92-93
WrapResolves ==
    /\ wpc = "inner" /\ pc = "resolved"
    /\ wpc' = "resolved"
    /\ wrapped' = Settled(response, NoError, "none")
    /\ UNCHANGED <<errorCount, resetTimer, caught>>
    /\ UNCHANGED <<clientVars, nonBoundaryVars>>

\* makeRequest rejected: the catch of lines 94-99 and _handleError, lines
\* 198-215, up to the await of the error handler or to the return of line 204
WrapCatches ==
    /\ wpc = "inner" /\ pc = "rejected"
    /\ errorCount' = errorCount + 1
    /\ caught' = thrown
    /\ IF errorCount + 1 > MaxErrors
       THEN /\ wpc' = "rejected"
            /\ wrapped' = Settled(0, WrapThrows(thrown), "suppressed")
       ELSE /\ wpc' = "handling"
            /\ UNCHANGED wrapped
    /\ UNCHANGED resetTimer
    /\ UNCHANGED <<clientVars, nonBoundaryVars>>

\* errorHandler.handleError settles, lines 215-222: resolved (ok), or the
\* handling failed and the catch of line 217 logs; then line 99
HandlerSettles(ok) ==
    /\ wpc = "handling"
    /\ wpc' = "rejected"
    /\ wrapped' = Settled(0, WrapThrows(caught), IF ok THEN "resolved" ELSE "rejected")
    /\ UNCHANGED <<errorCount, resetTimer, caught>>
    /\ UNCHANGED <<clientVars, nonBoundaryVars>>

\* the responses and the network failure given to the wrapped makeRequest
BoundaryStatuses == {200, 429, 503}

BoundaryNext ==
    \/ BoundaryInitialize
    \/ ResetTimerFires
    \/ WrappedCall
    \/ \E status \in BoundaryStatuses : FetchResponse(status)
    \/ \E kind \in BackoffKinds : FetchThrows(kind)
    \/ SleepDone
    \/ WrapResolves
    \/ WrapCatches
    \/ \E ok \in BOOLEAN : HandlerSettles(ok)

(***************************************************************************)
(* LocalLLMClient configuration and health status                          *)
(* (src/src/services/localLLMClient.js, constructor, checkHealth,          *)
(* updateConfig).  A value given in a configuration object records its     *)
(* `typeof`; a string is a sequence of units.                              *)
(***************************************************************************)
UndefinedValue == [t |-> "undefined", s |-> <<>>, n |-> 0]
Str(s) == [t |-> "string", s |-> s, n |-> 0]
Num(n) == [t |-> "number", s |-> <<>>, n |-> n]

\* the truth value of `config.baseUrl` in the test of line 237
Truthy(v) ==
    CASE v.t = "string" -> v.s # <<>>
      [] v.t = "number" -> v.n # 0
      [] OTHER -> FALSE

\* url.replace(/\/$/, ''), lines 49 and 241
ReplaceTrailingSlash(s) ==
    IF s # <<>> /\ s[Len(s)] = "/" THEN SubSeq(s, 1, Len(s) - 1) ELSE s

\* the error of line 239
BaseUrlTypeError ==
    [cls |-> "Error", name |-> "Error", code |-> "none",
     statusCode |-> 0, cause |-> NoCause]

\* the configuration objects given to updateConfig
BaseUrlArgs ==
    { UndefinedValue, Str(<<>>), Num(8080), Str(<<"invalid-url">>),
      Str(<<"http://", "localhost:8080">>), Str(<<"http://", "localhost:8080", "/">>) }
TimeoutArgs == {UndefinedValue, Num(-1), Num(0), Num(15000)}
RetryAttemptsArgs == {UndefinedValue, Num(0)}
Configs == [baseUrl : BaseUrlArgs, timeout : TimeoutArgs, retryAttempts : RetryAttemptsArgs]

NoConfig ==
    [baseUrl |-> UndefinedValue, timeout |-> UndefinedValue, retryAttempts |-> UndefinedValue]

\* constructor, lines 43-59, called with no arguments
ConfigInit ==
    /\ baseUrl = ReplaceTrailingSlash(<<"http://", "localhost:1234">>)
    /\ timeout = 120000
    /\ clientHealthy = FALSE
    /\ lastHealthCheck = "null"
    /\ healthChecks = [fresh |-> 0, stale |-> 0]
    /\ healthyFrom = "none"
    /\ updated = [config |-> NoConfig, thrown |-> NoError]

\* updateConfig(config), lines 236-255
UpdateConfigCall(config) ==
    /\ IF Truthy(config.baseUrl) /\ config.baseUrl.t # "string"
       THEN /\ updated' = [config |-> config, thrown |-> BaseUrlTypeError]
            /\ UNCHANGED <<baseUrl, timeout, clientHealthy, lastHealthCheck, healthChecks,
                           healthyFrom, retryAttempts, cfgChanged>>
       ELSE /\ baseUrl' = IF Truthy(config.baseUrl)
                          THEN ReplaceTrailingSlash(config.baseUrl.s)
                          ELSE baseUrl
            /\ timeout' = IF config.timeout.t # "undefined" THEN config.timeout.n ELSE timeout
            /\ retryAttempts' = IF config.retryAttempts.t # "undefined"
                                THEN config.retryAttempts.n
                                ELSE retryAttempts
            /\ cfgChanged' = (cfgChanged \/ (pc # "idle" /\ retryAttempts' # retryAttempts))
            /\ ResetHealth
            /\ updated' = [config |-> config, thrown |-> NoError]
    /\ UNCHANGED <<pc, attempt, lastError, thrown, response, outcomes, delay>>
    /\ UNCHANGED nonConfigVars

\* checkHealth is called, lines 197-200: makeRequest('/v1/models') is started
\* with the URL built from this.baseUrl at that moment (line 87)
CheckHealthStart ==
    /\ healthChecks.fresh + healthChecks.stale < MaxChecks
    /\ healthChecks' = [healthChecks EXCEPT !.fresh = @ + 1]
    /\ UNCHANGED <<baseUrl, timeout, clientHealthy, lastHealthCheck, healthyFrom, updated>>
    /\ UNCHANGED <<clientVars, nonConfigVars>>

\* the makeRequest of a checkHealth call settles, lines 200-208: resolved
\* (ok) or rejected; the call was started before the last updateConfig
\* (stale) or after it
CheckHealthSettles(stale, ok) ==
    /\ IF stale
       THEN /\ healthChecks.stale > 0
            /\ healthChecks' = [healthChecks EXCEPT !.stale = @ - 1]
       ELSE /\ healthChecks.fresh > 0
            /\ healthChecks' = [healthChecks EXCEPT !.fresh = @ - 1]
    /\ clientHealthy' = ok
    /\ lastHealthCheck' = "date"
    /\ healthyFrom' = IF ~ok THEN "none" ELSE IF stale THEN "stale" ELSE "fresh"
    /\ UNCHANGED <<baseUrl, timeout, updated>>
    /\ UNCHANGED <<clientVars, nonConfigVars>>

ConfigNext ==
    \/ \E config \in Configs : UpdateConfigCall(config)
    \/ CheckHealthStart
    \/ \E stale \in BOOLEAN, ok \in BOOLEAN : CheckHealthSettles(stale, ok)

(***************************************************************************)
(* Specifications                                                          *)
(***************************************************************************)
vars ==
    <<clientVars, degrVars, callVars, streamVars, timerVars, chatVars, configVars,
      boundaryVars, lossVars>>

\* the state after construction, but for retryAttempts
ServicesInit ==
    /\ DegrInit /\ CallInit /\ StreamInit /\ TimerInit /\ ChatInit /\ ConfigInit
    /\ BoundaryInit
    /\ lossReported = FALSE

Init == ClientInit /\ ServicesInit

\* the client alone: makeRequest calls and configuration updates
SpecClient == Init /\ [][ClientNext]_vars

\* the degradation service alone, its operations being abstract
InitDegr == Init /\ retryAttempts = MaxRetry

\* the client alone, with retryAttempts large enough for the cap of the wait
InitBackoff == ClientInitAt(BackoffRetries) /\ ServicesInit

SpecBackoff == InitBackoff /\ [][BackoffNext]_vars

SpecDegr == InitDegr /\ [][DegrNext]_vars

\* one executeWithDegradation call at a time, with its arguments and result
SpecCall == InitDegr /\ [][CallNext]_vars

\* one streamChatCompletion call reading its response
SpecStream == InitDegr /\ [][StreamNext]_vars

\* the timers of the degradation service and its disposal
SpecTimers == InitDegr /\ [][TimersNext]_vars

\* one chatCompletion call with the validation of its model
SpecChat == InitDegr /\ [][ChatNext]_vars

\* RetryScheduler on which neither cancel nor dispose is called
SpecRetry == InitDegr /\ [][RetryNext]_vars

\* updateConfig and checkHealth
SpecConfig == InitDegr /\ [][ConfigNext]_vars

\* the degradation service between the reports of its connection monitor
SpecLoss == InitDegr /\ [][LossNext]_vars

\* the *WithFallback methods against a server that cannot be reached
SpecEndToEnd == Init /\ [][EndToEndNext]_vars

\* makeRequest called through the error boundary
SpecBoundary == InitDegr /\ [][BoundaryNext]_vars

(***************************************************************************)
(* Properties of makeRequest                                               *)
(***************************************************************************)
IsNetOutcome(o) == o.net # "none"
Is5xx(o) == o.status >= 500
Is2xx(o) == o.status \in 200..299
IsOtherClientStatus(o) == o.status >= 400 /\ o.status < 500 /\ o.status \notin {400, 404}
Finished == pc \in {"resolved", "rejected"}

\* C1: with retryAttempts unchanged during the call, a makeRequest call
\* issues at most retryAttempts + 1 fetches, whatever the fetch outcomes are.
C1_RetryBound == (~cfgChanged) => Fetches <= retryAttempts + 1

\* C1 witness: a call that used all its tries on failures and then rejected
C1_Witness ==
    /\ ~cfgChanged /\ pc = "rejected" /\ retryAttempts >= 1
    /\ Fetches = retryAttempts + 1

\* C2: a 400 response is never retried: the fetch that received it is the
\* last fetch of the call and the call rejects right after it.
C2_NoRetryOn400 ==
    \A i \in 1..Fetches :
        outcomes[i].status = 400 => (i = Fetches /\ pc = "rejected")

C4_ClientErrorNotRetried ==
    \A i \in 1..Fetches :
        IsOtherClientStatus(outcomes[i])
        => /\ i = Fetches
           /\ pc = "rejected"
           /\ thrown.cls = "ApiError"
           /\ thrown.statusCode = outcomes[i].status

\* C4 witness: a 429 received on a retry (not the first attempt) with tries left
C4_Witness ==
    /\ pc = "rejected" /\ Fetches = 2 /\ retryAttempts >= 2 /\ ~cfgChanged
    /\ IsNetOutcome(outcomes[1]) /\ outcomes[2].status = 429
    /\ thrown = ApiError("CLIENT_ERROR", 429)

\* C5: a call whose attempts all failed with network or timeout errors
\* rejects with a ConnectionError wrapping the network error, never with
\* the raw network error.
C5_NetworkFailureWrapped ==
    (/\ pc = "rejected" /\ Fetches >= 1
     /\ \A i \in 1..Fetches : IsNetOutcome(outcomes[i]))
    => /\ thrown.cls = "ConnectionError"
       /\ thrown.cause.cls = "Error"

\* C6: when the attempts before attempt i failed with network errors and
\* attempt i receives a 2xx response, the call resolves with that response
\* and i is its last fetch.
C6_SuccessEndsLoop ==
    \A i \in 1..Fetches :
        (/\ Is2xx(outcomes[i])
         /\ \A j \in 1..(i - 1) : IsNetOutcome(outcomes[j]))
        => /\ i = Fetches
           /\ pc = "resolved"
           /\ response = outcomes[i].status

\* C6 witness: two network failures, then a 200 on the third attempt
C6_Witness ==
    /\ pc = "resolved" /\ Fetches = 3 /\ response = 200
    /\ IsNetOutcome(outcomes[1]) /\ IsNetOutcome(outcomes[2])

(***************************************************************************)
(* Properties of the degradation service                                   *)
(***************************************************************************)
\* the state the claim C7 gives for each error category
C7_StateForCategory(error) ==
    CASE error.cls = "ConnectionError" -> "unavailable"
      [] error.cls = "ModelError" -> "limited"
      [] error.cls = "ApiError" /\ error.statusCode >= 500 -> "unavailable"
      [] error.cls = "ApiError" /\ error.statusCode < 500 -> "limited"
      [] OTHER -> "unavailable"

\* C7 as claimed: when the operation of executeWithDegradation rejects, the
\* feature is left in the state its error category determines.
C7_FailureStateByCategory ==
    lastStep.kind = "rejected"
    => featureStates[lastStep.feature] = C7_StateForCategory(lastStep.error)

\* C7 amended: when the operation rejects, the failure handling leaves the
\* feature in the state its error category determines, except under the
\* 'disable' strategy, where it leaves the feature disabled.
C7_FailureStateUnlessDisable ==
    lastStep.kind = "rejected"
    => featureStates[lastStep.feature] =
          IF lastStep.disable THEN "disabled" ELSE C7_StateForCategory(lastStep.error)

\* C7 witness: an operation rejected with a 5xx ApiError under a strategy
\* other than 'disable' and left its feature unavailable
C7_Witness ==
    /\ lastStep.kind = "rejected" /\ ~lastStep.disable
    /\ lastStep.error = ApiError("SERVER_ERROR", 500)
    /\ featureStates[lastStep.feature] = "unavailable"

\* C8: once the handler of a connected -> disconnected report has run, the
\* connection feature and the four dependent features are unavailable,
\* whatever state they were in.
C8_LossForcesUnavailable ==
    lastStep.kind = "lost"
    => \A f \in DependentFeatures \cup {"connection"} : featureStates[f] = "unavailable"

\* C8 witness: a loss was reported while the dependent features were in all
\* four states, one of them disabled
C8_Witness ==
    /\ lastStep.kind = "lost" /\ lastStep.from = FEATURE_STATES
    /\ ~isConnected
    /\ \A f \in DependentFeatures : featureStates[f] = "unavailable"

\* the step in which the handler of a disconnected -> connected report runs
RestoreReported == ~isConnected /\ isConnected' /\ listeners > 0

\* C9: on a disconnected -> connected report every dependent feature that
\* was unavailable becomes limited and every other one keeps its state; and
\* apart from a direct setFeatureState call, a dependent feature becomes
\* available only in the step in which an operation of its own resolves.
C9_RestorePromotesToLimited ==
    [][ /\ RestoreReported
           => \A f \in DependentFeatures :
                 featureStates'[f] = IF featureStates[f] = "unavailable"
                                     THEN "limited" ELSE featureStates[f]
        /\ \A f \in DependentFeatures :
              (featureStates[f] # "available" /\ featureStates'[f] = "available")
              => \/ lastStep'.kind = "resolved" /\ lastStep'.feature = f
                 \/ lastStep'.kind = "set" ]_vars

\* C9 witness: a restore was reported while some dependent feature was
\* unavailable and others were disabled and limited; afterwards none is
\* unavailable, one is limited and one still disabled
C9_Witness ==
    /\ lastStep.kind = "restored"
    /\ {"unavailable", "disabled"} \subseteq lastStep.from
    /\ "available" \notin lastStep.from
    /\ isConnected
    /\ \E f \in DependentFeatures : featureStates[f] = "limited"
    /\ \E f \in DependentFeatures : featureStates[f] = "disabled"
    /\ \A f \in DependentFeatures : featureStates[f] \notin {"unavailable", "available"}

\* C10: a disabled feature leaves the disabled state only by a direct
\* setFeatureState call, never by an executeWithDegradation call or a
\* connection report.
C10_DisabledIsSticky ==
    [][ \A f \in DependentFeatures :
           (featureStates[f] = "disabled" /\ featureStates'[f] # "disabled")
           => lastStep'.kind = "set" ]_vars

\* C11: a feature enters the disabled state only in the step in which an
\* operation of its own fails under the 'disable' strategy, or by a direct
\* setFeatureState call: never by a failure under another strategy, by a
\* success or by a connection report.
C11_DisabledOnlyByDisableStrategy ==
    [][ \A f \in DependentFeatures :
           (featureStates[f] # "disabled" /\ featureStates'[f] = "disabled")
           => \/ /\ lastStep'.kind = "rejected"
                 /\ lastStep'.feature = f
                 /\ lastStep'.disable
              \/ lastStep'.kind = "set" ]_vars

\* C11 witness: an operation failed under the 'disable' strategy and its
\* feature is disabled
C11_Witness ==
    /\ lastStep.kind = "rejected" /\ lastStep.disable
    /\ featureStates[lastStep.feature] = "disabled"

\* C30: between a connection loss reported by the monitor and the next
\* reported restore no dependent feature is in state available, whatever
\* executeWithDegradation calls complete in between.
C30_NoAvailableWhileLost ==
    lossReported => \A f \in DependentFeatures : featureStates[f] # "available"

(***************************************************************************)
(* Properties of one executeWithDegradation call                           *)
(***************************************************************************)
\* the step on which the awaited operation of the call resolves
OperationResolvedStep ==
    call.phase = "operation" /\ call'.phase = "resolved" /\ call'.error = NoError

\* C12: when the operation of a call resolves (the feature was not disabled
\* at the start, so the operation was invoked), the feature is available
\* afterwards, the call resolves with exactly the operation's result, and the
\* states of all other features are unchanged.
C12_SuccessMakesAvailable ==
    [][ OperationResolvedStep
        => /\ featureStates'[call.args.featureName] = "available"
           /\ call'.result = OperationResult
           /\ \A g \in Features \ {call.args.featureName} :
                  featureStates'[g] = featureStates[g] ]_vars

\* C12 witness: a call whose operation resolved while the feature was
\* limited, and which was given another fallback value
C12_Witness ==
    /\ call.phase = "resolved" /\ call.error = NoError
    /\ call.from = "limited"
    /\ call.args.fallbackValue = CallerValue
    /\ call.result = OperationResult
    /\ featureStates[call.args.featureName] = "available"

\* the call was made through one of the *WithFallback methods and the wrapped
\* client call failed
WrappedCallFailed ==
    /\ call.args.method # "executeWithDegradation"
    /\ call.phase = "resolved"
    /\ call.error # NoError

\* C19: when the wrapped client call fails, each *WithFallback method
\* resolves with the value of its own fallback handler (an array for
\* getModelsWithFallback, the apology chat response, the placeholder
\* completion, the empty embedding response) and never with null.
C19_WithFallbackUsesHandler ==
    WrappedCallFailed
    => /\ call.result # Null
       /\ call.args.method = "getModelsWithFallback" => call.result = EmptyArray
       /\ call.args.method = "chatCompletionWithFallback" => call.result = ApologyChat
       /\ call.args.method = "textCompletionWithFallback"
              => call.result = PlaceholderCompletion
       /\ call.args.method = "generateEmbeddingsWithFallback"
              => call.result = EmptyEmbedding

\* C20: a call made with one of the built-in fallback strategies never
\* rejects: whatever error its operation rejects with, the promise resolves
\* with the operation result or a fallback value.
C20_BuiltInStrategiesNeverReject ==
    call.args.fallbackStrategy \in FALLBACK_STRATEGIES => call.phase # "rejected"

(***************************************************************************)
(* Properties of streamChatCompletion                                      *)
(***************************************************************************)
\* C13: once a read contains the line `data: [DONE]` the call has resolved,
\* and onChunk was invoked for no `data: ` line after it, be it later in the
\* same read or in a later read: there are at most as many onChunk calls as
\* `data: ` lines were read before the sentinel.
C13_DoneEndsStream ==
    sentinelRead => (spc = "resolved" /\ Len(delivered) <= dataLinesBefore)

\* C13 witness: the sentinel was read after a delivered chunk and with a
\* `data: ` line after it, in the same read or left unread
C13_Witness ==
    /\ sentinelRead /\ spc = "resolved"
    /\ body = JoinLines(<<JsonLineB, SentinelLine, JsonLineA>>)
    /\ delivered = <<<<"{", "}">>>>

\* C14: a `data: ` line whose payload is not JSON is skipped: the onChunk
\* calls are exactly the payloads of the well-formed `data: ` lines read
\* before the sentinel, once each and in order, and a read that resolves
\* never makes the call reject.
C14_MalformedSkipped ==
    [][ /\ delivered' = expected'
        /\ pos' > pos => spc' # "rejected" ]_vars

\* C14 witness: a malformed line between two well-formed ones, all read
C14_Witness ==
    /\ body = JoinLines(<<JsonLineA, MalformedLine, JsonLineB>>)
    /\ spc = "ended"
    /\ delivered = << <<"1", "2">>, <<"{", "}">> >>

(***************************************************************************)
(* Properties of the waits of makeRequest                                  *)
(***************************************************************************)
\* the attempt that fails on this step, counting from 0
FailedAttempt == Len(outcomes)

\* a fetch fails on this step
FetchFailsStep == pc = "fetching" /\ pc' \in {"sleeping", "rejected"}

PendingInterval == checkIntervals > 0
PendingRetryTimer == \E k \in Keys : timers[k] = "pending" \/ orphans[k] > 0

\* C16: after dispose(), for any earlier sequence of initialize,
\* scheduleRetry and retry executions, no health-check interval and no retry
\* timer created by the service remains pending.
C16_DisposeClearsTimers ==
    [][ Dispose => (~PendingInterval' /\ ~PendingRetryTimer') ]_vars

\* the schedule call that made infos[g] is the last one for its key
MostRecent(g) == \A h \in (g + 1)..Len(infos) : infos[h].key # infos[g].key

\* number of times the operation of infos[g] was invoked
Invocations(g) == infos[g].attempts

\* C24: for a schedule(key, operation, {maxAttempts}) that no schedule or
\* cancel for the key follows, and every maxAttempts >= 0, the operation is
\* invoked at most maxAttempts times, no two invocations of it are in flight
\* together, and once the maxAttempts-th invocation has rejected the key is
\* no longer in the retry queue.
C24_AtMostMaxAttempts ==
    \A g \in 1..Len(infos) :
        MostRecent(g)
        => /\ Invocations(g) <= infos[g].maxAttempts
           /\ inflight[g] <= 1
           /\ (Invocations(g) >= infos[g].maxAttempts /\ Invocations(g) > 0
               /\ inflight[g] = 0)
              => retryQueue[infos[g].key] # g

\* C26: at most one timer is pending per key and it is the one _timers holds
\* for the key: no pending timer is out of the reach of cancel and dispose.
C26_OneHeldTimerPerKey == \A k \in Keys : orphans[k] = 0

\* C27, in the form a finite behaviour refutes: when neither cancel nor
\* dispose is called, the retryInfo of the most recent schedule for a key
\* stays in the retry queue until its operation has been invoked, so that
\* the timer that fires next invokes it.
C27_MostRecentStaysQueued ==
    \A g \in 1..Len(infos) :
        (MostRecent(g) /\ Invocations(g) = 0) => retryQueue[infos[g].key] = g

(***************************************************************************)
(* Properties of Model and of chatCompletion                               *)
(***************************************************************************)
\* validateChatModel found the model of the request and asked it
Validated == found # NoModel

Untyped(model) == model.type \in {Undefined, Null}

\* C17 as stated: a Model whose type is undefined or null is chat-capable
\* and loaded, for every value of its other fields.
C17_UntypedIsChatAndLoaded ==
    (Validated /\ Untyped(found))
    => (verdict.chatCapable /\ verdict.loadedAsked /\ verdict.loaded)

\* C17 amended: a Model whose type is undefined or null supports chat for
\* every value of its other fields; isLoaded() does not read the type: for
\* such a model it returns true exactly when the state is undefined, null,
\* 'loaded', 'ready' or 'active'.
C17_UntypedIsChatLoadedByState ==
    (Validated /\ Untyped(found))
    => /\ verdict.chatCapable
       /\ verdict.loadedAsked
       /\ verdict.loaded
              <=> found.state \in {Undefined, Null, "loaded", "ready", "active"}

\* C17 witness: a model without type whose state is 'not-loaded' was asked
C17_Witness ==
    /\ Validated /\ found.type = Undefined /\ found.state = "not-loaded"
    /\ verdict.chatCapable /\ ~verdict.loaded
    /\ chatThrown = ModelError("MODEL_NOT_LOADED")

ChatTypes == {Undefined, Null, "llm", "vlm"}
LoadedStates == {Undefined, Null, "loaded", "ready", "active"}

\* the entry of the list that find returns for the request: the first with
\* the id of the request
ListedAt(i) ==
    /\ i \in 1..Len(listed)
    /\ listed[i].id = chatReq.model
    /\ \A j \in 1..(i - 1) : listed[j].id # chatReq.model

\* C18: with validateModel true, the POST is sent only after GET /v1/models
\* listed the model of the request as a chat model that is loaded; otherwise
\* the call rejects with a ModelError and sends no POST: MODEL_NOT_FOUND for
\* a model that is not listed, MODEL_INCOMPATIBLE_CHAT for one that does not
\* support chat (whatever its load state), MODEL_NOT_LOADED for a chat model
\* that is not loaded (GET_MODEL_FAILED, with its cause, only when the GET
\* itself failed).  With validateModel false no GET is sent.
C18_PostOnlyAfterValidation ==
    /\ (chatReq.validateModel /\ \E k \in 1..Len(sent) : sent[k] = PostChat)
       => /\ sent = <<GetModels, PostChat>>
          /\ \E i \in 1..Len(listed) :
                 /\ ListedAt(i)
                 /\ listed[i].type \in ChatTypes
                 /\ listed[i].state \in LoadedStates
    /\ (chatReq.validateModel /\ sent = <<GetModels>> /\ cpc # "getting")
       => /\ cpc = "rejected"
          /\ chatThrown.cls = "ModelError"
          /\ (\A i \in 1..Len(listed) : listed[i].id # chatReq.model)
                 => chatThrown.code \in {"MODEL_NOT_FOUND", "GET_MODEL_FAILED"}
          /\ chatThrown.code = "GET_MODEL_FAILED" => chatThrown.cause # NoCause
          /\ \A i \in 1..Len(listed) :
                 ListedAt(i)
                 => chatThrown.code =
                        IF listed[i].type \notin ChatTypes THEN "MODEL_INCOMPATIBLE_CHAT"
                        ELSE "MODEL_NOT_LOADED"
    /\ ~chatReq.validateModel
       => \A k \in 1..Len(sent) : sent[k] # GetModels

\* C18 witness: a model that neither supports chat nor is loaded was listed
\* after another one and the call rejected
C18_Witness ==
    /\ chatReq.validateModel /\ cpc = "rejected"
    /\ Len(listed) = 2 /\ ListedAt(2)
    /\ listed[2].type = "embeddings" /\ listed[2].state = "not-loaded"
    /\ chatThrown = ModelError("MODEL_INCOMPATIBLE_CHAT")

\* C22: a call of executeWithDegradation on a disabled feature does not
\* invoke the operation: in the step of the call it resolves with the
\* caller's fallbackValue (null when none was given) and no feature state
\* changes.
C22_DisabledSkipsOperation ==
    [][ ( /\ call.phase = "idle" /\ call'.phase # "idle"
          /\ featureStates[call'.args.featureName] = "disabled" )
        => /\ call'.phase = "resolved"
           /\ call'.result = call'.args.fallbackValue
           /\ call'.error = NoError
           /\ featureStates' = featureStates ]_vars

\* C22 witness: a call on a disabled feature resolved with the value the
\* caller gave, the feature still disabled
C22_Witness ==
    /\ call.phase = "resolved" /\ call.from = "disabled"
    /\ call.args.fallbackValue = CallerValue /\ call.result = CallerValue
    /\ featureStates[call.args.featureName] = "disabled"

\* the onChunk arguments when the whole body arrives as one read
WholeBodyChunks == ProcessLines(LinesOf(body), 1, <<>>).delivered

\* C28: the onChunk calls depend only on the bytes of the response: however
\* the transport divided the body into reads, once the stream has ended the
\* calls made are those made when the body arrives as a single read, so a
\* `data: ` line that straddles two reads is delivered once and intact.
C28_ReadSplitIndependent ==
    spc \in {"ended", "resolved"} => delivered = WholeBodyChunks

\* C29: with every fetch failing with a network error, for every
\* retryAttempts >= 0 and model validation at its default, once
\* getModelsWithFallback, chatCompletionWithFallback,
\* textCompletionWithFallback or generateEmbeddingsWithFallback has completed
\* the state of its feature is unavailable.
C29_UnreachableMakesUnavailable ==
    call.phase \in {"resolved", "rejected"}
    => featureStates[call.args.featureName] = "unavailable"

(***************************************************************************)
(* Properties of the error boundary                                        *)
(***************************************************************************)
\* C23: the wrapped makeRequest rejects only when makeRequest rejected, and
\* with that same error, also when the error limit is exceeded or the error
\* handler failed; a rejection of makeRequest is never turned into a
\* resolution; the wrapped call resolves only when makeRequest resolved, with
\* the same value, and that step leaves the error count unchanged.
C23_BoundaryTransparent ==
    [][ /\ wpc' = "rejected" => (pc' = "rejected" /\ wrapped'.error = thrown')
        /\ wpc' = "resolved"
           => (pc' = "resolved" /\ wrapped'.value = response' /\ wrapped'.error = NoError)
        /\ (wpc = "inner" /\ wpc' = "resolved") => errorCount' = errorCount
        /\ (wpc \in {"inner", "handling"} /\ pc = "rejected")
           => wpc' \in {"inner", "handling", "rejected"} ]_vars

\* C23 witness: a wrapped call rejected with the ApiError of makeRequest
\* while the error limit was exceeded
C23_Witness ==
    /\ wpc = "rejected" /\ wrapped.handler = "suppressed"
    /\ errorCount > MaxErrors
    /\ wrapped.error = ApiError("SERVER_ERROR", 503)

(***************************************************************************)
(* Properties of the client configuration and health status                *)
(***************************************************************************)
\* a string the URL parser accepts: a scheme followed by a host
IsValidUrl(s) == Len(s) >= 2 /\ s[1] = "http://"

\* a configuration with a baseUrl that is no valid URL or a negative timeout
InvalidConfig(config) ==
    \/ config.baseUrl.t = "string" /\ ~IsValidUrl(config.baseUrl.s)
    \/ config.timeout.t = "number" /\ config.timeout.n < 0

\* C21: updateConfig called with a baseUrl that is not a valid URL, or with
\* a negative timeout, throws a ValidationError.
C21_UpdateConfigValidates ==
    InvalidConfig(updated.config) => updated.thrown.cls = "ValidationError"

\* an updateConfig call returns
UpdateConfigReturns ==
    /\ \E config \in Configs : UpdateConfigCall(config)
    /\ updated'.thrown = NoError

\* C25: when updateConfig returns, isHealthy is false and lastHealthCheck is
\* null; and isHealthy is true only by a checkHealth call that was started
\* after the last updateConfig, never by one that was in flight during it.
C25_HealthResetByUpdate ==
    [][ /\ UpdateConfigReturns => (~clientHealthy' /\ lastHealthCheck' = "null")
        /\ clientHealthy' => healthyFrom' = "fresh" ]_vars

====
